---------------------------- MODULE Spec2Model ----------------------------
(***************************************************************************)
(* A model of the CBOR codec of code-assurance-ts (class CBOR).            *)
(*                                                                         *)
(* JavaScript values are tagged records:                                   *)
(*   integer  [t |-> "integer", v |-> n]     Number.isInteger(value)       *)
(*   float    [t |-> "float",   f |-> n]     a finite non-integer number   *)
(*   string   [t |-> "string",  s |-> <<char codes>>]                      *)
(*   Array    [t |-> "Array",   e |-> <<values>>]                          *)
(*   Map      [t |-> "Map",     p |-> <<[k |-> key, v |-> value]>>]        *)
(*            pairs in insertion order, keys are char-code sequences       *)
(*   boolean  [t |-> "boolean", b |-> TRUE]  a kind matchItemType rejects  *)
(* A Uint8Array is a sequence of numbers 0..255; index i of the source is  *)
(* position i+1 of the sequence.                                           *)
(***************************************************************************)
EXTENDS Integers, Sequences, FiniteSets, TLC

VARIABLES
    payload,    \* the value handed to encode (or to one scalar emitter)
    encoded,    \* outcome of the encode call
    data,       \* the Uint8Array handed to decode
    stack,      \* activation records of the composite consume functions
    decoded,    \* outcome of the decode call
    reencoded,  \* outcome of encode(decode(data))
    pc,         \* position of the driver
    dispatches, \* history: every matchNextItemType call of decode, in order
    returns,    \* history: every completed consume call, in order
    keyChecks,  \* history: every isTinyUtf8Type test of consumeMapObject
    pastEnd     \* history: some read went past the end of data

vars == <<payload, encoded, data, stack, decoded, reencoded, pc,
          dispatches, returns, keyChecks, pastEnd>>

---------------------------------------------------------------------------
(* Bounds of the model *)

\* raw decode buffers hold at most this many bytes
MaxBufLen == 4
\* every text length 0..MaxTextLen is handed to the string emitter
MaxTextLen == 300
\* integers up to this far beyond either end of 0..65535 are emitted
IntMargin == 2
\* sequences of the round-trip payloads hold at most this many elements
MaxArrLen == 2

---------------------------------------------------------------------------
(* Value constructors *)

Integer(n) == [t |-> "integer", v |-> n]
Float(n)   == [t |-> "float", f |-> n]
String(s)  == [t |-> "string", s |-> s]
Array(e)   == [t |-> "Array", e |-> e]
Map(p)     == [t |-> "Map", p |-> p]
Boolean(b) == [t |-> "boolean", b |-> b]

\* storing a number into a Uint8Array element keeps it modulo 2^8
ToUint8(n) == n % 256

\* value of reading a typed array at an index >= its length
undefined == -1

\* outcomes of a call
Return(x) == [kind |-> "return", value |-> x]
Throw(e)  == [kind |-> "throw", error |-> e]
NotCalled == [kind |-> "none"]

---------------------------------------------------------------------------
(* Encoder *)

concatTypedArrays(a, b) == a \o b

range(n) == [i \in 1..n |-> i - 1]

matchItemType(value) ==
    IF value.t = "string" THEN "emitStringBytes"
    ELSE IF value.t = "integer" THEN "emitIntegerBytes"
    ELSE IF value.t = "float" THEN "emitFloatingPointBytes"
    ELSE IF value.t = "Array" THEN "emitArrayBytes"
    ELSE IF value.t = "Map" THEN "emitMapBytes"
    ELSE "undefined"

emitTypeByteForArray(value) == \H80 + Len(value.e)

emitTypeByteForMap(value) == \HA0 + Len(value.p)

\* for a finite non-integer number both loops end and one byte is returned
emitFloatingPointBytes(value) == <<\HFB>>

emitIntegerBytesOffByOne(value) ==
    IF value >= 0 /\ value < 23 THEN <<ToUint8(value)>>
    ELSE IF value >= 0 /\ value < 255 THEN <<\H18, ToUint8(value)>>
    ELSE IF value >= 0 /\ value <= 65535
         THEN <<\H19, ToUint8(value \div 256), ToUint8(value % 256)>>
    ELSE <<>>

emitIntegerBytes(value) ==
    IF value >= 0 /\ value <= 23 THEN <<ToUint8(value)>>
    ELSE IF value >= 0 /\ value <= 255 THEN <<\H18, ToUint8(value)>>
    ELSE IF value >= 0 /\ value <= 65535
         THEN LET firstByte  == value \div 256
                  secondByte == value % 256
              IN  <<\H19, ToUint8(firstByte), ToUint8(secondByte)>>
    ELSE <<>>

emitMapBytes(value) == <<>>

emitStringTypeBytes(value) ==
    IF Len(value) <= 23 THEN <<ToUint8(\H60 + Len(value))>>
    ELSE IF Len(value) <= 255 THEN <<\H78, ToUint8(Len(value))>>
    ELSE IF Len(value) <= 65535
         THEN LET firstLenByte  == (Len(value) \div 256) % 256
                  secondLenByte == Len(value) % 256
              IN  <<\H79, ToUint8(firstLenByte), ToUint8(secondLenByte)>>
    ELSE <<>>

emitStringBytes(value) ==
    LET typeBytes  == emitStringTypeBytes(value)
        indexes    == range(Len(value))
        valueBytes == [n \in DOMAIN indexes |-> ToUint8(value[indexes[n] + 1])]
    IN  concatTypedArrays(typeBytes, valueBytes)

RECURSIVE emitArrayBytes(_)

\* emitFn(value), for the emitter that matchItemType named
callEmitFn(emitFn, value) ==
    IF emitFn = "emitStringBytes" THEN emitStringBytes(value.s)
    ELSE IF emitFn = "emitIntegerBytes" THEN emitIntegerBytes(value.v)
    ELSE IF emitFn = "emitFloatingPointBytes" THEN emitFloatingPointBytes(value.f)
    ELSE IF emitFn = "emitArrayBytes" THEN emitArrayBytes(value)
    ELSE emitMapBytes(value)

\* the for-of loop of emitArrayBytes from element k (1-based) on
RECURSIVE emitArrayLoop(_, _, _)
emitArrayLoop(value, k, bytes) ==
    IF k > Len(value.e) THEN bytes
    ELSE LET emitFn == matchItemType(value.e[k])
         IN  IF emitFn = "undefined" THEN bytes
             ELSE emitArrayLoop(value, k + 1,
                      concatTypedArrays(bytes, callEmitFn(emitFn, value.e[k])))

emitArrayBytes(value) ==
    emitArrayLoop(value, 1, <<ToUint8(emitTypeByteForArray(value))>>)

\* the for-of loop of encode from pair k (1-based) on
RECURSIVE encodeLoop(_, _, _)
encodeLoop(value, k, bytes) ==
    IF k > Len(value.p) THEN bytes
    ELSE LET textBytes == emitStringBytes(value.p[k].k)
             withKey   == concatTypedArrays(bytes, textBytes)
             emitFn    == matchItemType(value.p[k].v)
         IN  IF emitFn = "undefined" THEN withKey
             ELSE encodeLoop(value, k + 1,
                      concatTypedArrays(withKey, callEmitFn(emitFn, value.p[k].v)))

encode(value) ==
    Return(encodeLoop(value, 1, <<ToUint8(emitTypeByteForMap(value))>>))

---------------------------------------------------------------------------
(* Decoder: pure parts *)

\* bytes[idx] of a Uint8Array
byteAt(bytes, idx) == IF idx < Len(bytes) THEN bytes[idx + 1] ELSE undefined

\* Uint8Array.prototype.slice(begin, end) for 0 <= begin <= end
slice(bytes, begin, end) ==
    SubSeq(bytes, begin + 1, IF end < Len(bytes) THEN end ELSE Len(bytes))

\* the decimal digits of n >= 0, as char codes
RECURSIVE decimal(_)
decimal(n) == IF n < 10 THEN <<48 + n>> ELSE decimal(n \div 10) \o <<48 + (n % 10)>>

\* Array.prototype.join(): the elements in decimal, separated by ","
RECURSIVE join(_)
join(bytes) ==
    IF Len(bytes) = 0 THEN <<>>
    ELSE IF Len(bytes) = 1 THEN decimal(bytes[1])
    ELSE decimal(bytes[1]) \o <<44>> \o join(Tail(bytes))

toUtf8(bytes) == join(bytes)

isTinyUtf8Type(byte) == byte >= \H60 /\ byte <= \H77

matchNextItemTypeLenient(byte) ==
    IF byte >= \HA0 /\ byte <= \HB7 THEN "consumeMapObject"
    ELSE IF byte >= \H60 /\ byte <= \H77 THEN "consumeTinyUtf8String"
    ELSE IF byte >= \H80 /\ byte <= \H97 THEN "consumeSmallArray"
    ELSE IF byte = undefined THEN "undefined"
    ELSE "consumeTinyUnsignedInteger"

matchNextItemType(byte) ==
    IF byte >= \HA0 /\ byte <= \HB7 THEN "consumeMapObject"
    ELSE IF byte >= \H60 /\ byte <= \H77 THEN "consumeTinyUtf8String"
    ELSE IF byte >= \H00 /\ byte <= \H17 THEN "consumeTinyUnsignedInteger"
    ELSE IF byte >= \H80 /\ byte <= \H97 THEN "consumeSmallArray"
    ELSE "undefined"

consumeTinyUnsignedIntegerStuck(bytes, idx) ==
    [nextIndex |-> idx, decodedItem |-> Integer(byteAt(bytes, idx))]

consumeTinyUnsignedInteger(bytes, idx) ==
    [nextIndex |-> idx + 1, decodedItem |-> Integer(byteAt(bytes, idx))]

consumeTinyUtf8String(bytes, idx) ==
    LET strLen   == byteAt(bytes, idx) - \H60
        strBytes == slice(bytes, idx + 1, idx + strLen + 1)
    IN  [nextIndex |-> idx + strLen + 1, decodedItem |-> String(toUtf8(strBytes))]

\* Map.prototype.set on the pairs of a Map: an existing key keeps its place
mapSet(pairs, key, value) ==
    IF \E j \in 1..Len(pairs) : pairs[j].k = key
    THEN [j \in 1..Len(pairs) |->
              IF pairs[j].k = key THEN [k |-> key, v |-> value] ELSE pairs[j]]
    ELSE Append(pairs, [k |-> key, v |-> value])

---------------------------------------------------------------------------
(* Decoder: the calls of the composite consume functions, one activation   *)
(* record each.  fn, idx: the function and its idx argument; count: arrLen *)
(* or mapKeyCount; i, nextIdx, obj: its locals; key: the decoded key whose *)
(* value is being consumed; brk: the loop was left by break.               *)

frame(fn, idx) ==
    [fn |-> fn, idx |-> idx,
     count |-> byteAt(data, idx) - (IF fn = "consumeSmallArray" THEN \H80 ELSE \HA0),
     i |-> 0, nextIdx |-> idx + 1, obj |-> <<>>, key |-> <<>>, brk |-> FALSE]

isLeaf(fn) == fn \in {"consumeTinyUnsignedInteger", "consumeTinyUtf8String"}

callLeaf(fn, idx) ==
    IF fn = "consumeTinyUnsignedInteger" THEN consumeTinyUnsignedInteger(data, idx)
    ELSE consumeTinyUtf8String(data, idx)

\* the record of a completed call; caller: idx of the consume call that made
\* it, -1 when decode made it
returned(fn, idx, result, stk) ==
    [fn |-> fn, idx |-> idx, nextIndex |-> result.nextIndex,
     caller |-> IF stk = <<>> THEN -1 ELSE stk[Len(stk)].idx]

\* `result` comes back to the caller on top of stk (to decode when stk is empty)
resume(stk, result) ==
    IF stk = <<>>
    THEN /\ decoded' = Return(result.decodedItem)
         /\ stack' = <<>>
         /\ pc' = "done"
    ELSE LET top == stk[Len(stk)]
             now == IF top.fn = "consumeSmallArray"
                    THEN [top EXCEPT !.nextIdx = result.nextIndex,
                                     !.obj = Append(@, result.decodedItem),
                                     !.i = @ + 1]
                    ELSE [top EXCEPT !.obj = mapSet(@, top.key, result.decodedItem),
                                     !.i = @ + 1]
         IN  /\ stack' = [stk EXCEPT ![Len(stk)] = now]
             /\ pc' = "consume"
             /\ UNCHANGED decoded

\* matchNextItemType(bytes[idx]) and the call of what it returns, made by the
\* caller on top of stk; rets: the returns recorded so far
invoke(stk, idx, rets) ==
    LET fn == matchNextItemType(byteAt(data, idx))
    IN  /\ dispatches' = Append(dispatches, [idx |-> idx, byte |-> byteAt(data, idx)])
        /\ IF fn = "undefined"
           THEN \* calling undefined throws; nothing catches it
                /\ decoded' = Throw("TypeError")
                /\ stack' = <<>>
                /\ pc' = "done"
                /\ returns' = rets
                /\ pastEnd' = (pastEnd \/ idx >= Len(data))
           ELSE IF isLeaf(fn)
           THEN LET result == callLeaf(fn, idx)
                IN  /\ resume(stk, result)
                    /\ returns' = Append(rets, returned(fn, idx, result, stk))
                    /\ pastEnd' = (pastEnd \/ result.nextIndex > Len(data))
           ELSE /\ stack' = Append(stk, frame(fn, idx))
                /\ pc' = "consume"
                /\ returns' = rets
                /\ UNCHANGED <<decoded, pastEnd>>

\* decode(data)
Decode ==
    /\ pc = "decode"
    /\ invoke(<<>>, 0, returns)
    /\ UNCHANGED <<payload, encoded, data, reencoded, keyChecks>>


top == stack[Len(stack)]
callers == SubSeq(stack, 1, Len(stack) - 1)

\* consumeSmallArray: one pass of the for loop
ArrayIter ==
    /\ pc = "consume"
    /\ top.fn = "consumeSmallArray"
    /\ top.i < top.count
    /\ invoke(stack, top.nextIdx, returns)
    /\ UNCHANGED <<payload, encoded, data, reencoded, keyChecks>>

\* consumeSmallArray: the loop is over, return
ArrayReturn ==
    /\ pc = "consume"
    /\ top.fn = "consumeSmallArray"
    /\ top.i >= top.count
    /\ LET result == [nextIndex |-> top.nextIdx, decodedItem |-> Array(top.obj)]
       IN  /\ resume(callers, result)
           /\ returns' = Append(returns, returned(top.fn, top.idx, result, callers))
    /\ UNCHANGED <<payload, encoded, data, reencoded, dispatches, keyChecks, pastEnd>>

\* consumeMapObject: one pass of the for loop
MapIter ==
    /\ pc = "consume"
    /\ top.fn = "consumeMapObject"
    /\ top.i < top.count /\ ~top.brk
    /\ keyChecks' = Append(keyChecks, [idx |-> top.nextIdx,
                                       byte |-> byteAt(data, top.nextIdx)])
    /\ IF isTinyUtf8Type(byteAt(data, top.nextIdx))
       THEN LET keyResult == consumeTinyUtf8String(data, top.nextIdx)
                now == [top EXCEPT !.nextIdx = keyResult.nextIndex,
                                   !.key = keyResult.decodedItem.s]
            IN  invoke(Append(callers, now), now.nextIdx,
                       Append(returns, returned("consumeTinyUtf8String",
                                                top.nextIdx, keyResult, stack)))
       ELSE \* keys must be strings: break
            /\ stack' = Append(callers, [top EXCEPT !.brk = TRUE])
            /\ pastEnd' = (pastEnd \/ top.nextIdx >= Len(data))
            /\ UNCHANGED <<decoded, pc, dispatches, returns>>
    /\ UNCHANGED <<payload, encoded, data, reencoded>>

\* consumeMapObject: the loop is over or was left, return
MapReturn ==
    /\ pc = "consume"
    /\ top.fn = "consumeMapObject"
    /\ top.i >= top.count \/ top.brk
    /\ LET result == [nextIndex |-> top.idx + 1, decodedItem |-> Map(top.obj)]
       IN  /\ resume(callers, result)
           /\ returns' = Append(returns, returned(top.fn, top.idx, result, callers))
    /\ UNCHANGED <<payload, encoded, data, reencoded, dispatches, keyChecks, pastEnd>>

---------------------------------------------------------------------------
(* Drivers *)

NoPayload == [t |-> "none"]

\* encode(payload), and its bytes handed on to decode
Encode ==
    /\ pc = "encode"
    /\ encoded' = encode(payload)
    /\ data' = encoded'.value
    /\ pc' = "decode"
    /\ UNCHANGED <<payload, stack, decoded, reencoded, dispatches, returns,
                   keyChecks, pastEnd>>

\* encode(decode(data)): an exception of decode goes through; encode of a
\* value that is no Map throws at payload.keys()
Reencode ==
    /\ pc = "done"
    /\ encoded # NotCalled
    /\ reencoded' = IF decoded.kind = "throw" THEN decoded
                    ELSE IF decoded.value.t = "Map" THEN encode(decoded.value)
                    ELSE Throw("TypeError")
    /\ pc' = "reencoded"
    /\ UNCHANGED <<payload, encoded, data, stack, decoded, dispatches, returns,
                   keyChecks, pastEnd>>

\* one call of emitIntegerBytes
EmitInteger ==
    /\ pc = "emit"
    /\ payload.t = "integer"
    /\ encoded' = Return(emitIntegerBytes(payload.v))
    /\ pc' = "emitted"
    /\ UNCHANGED <<payload, data, stack, decoded, reencoded, dispatches, returns,
                   keyChecks, pastEnd>>

\* one call of emitStringBytes
EmitString ==
    /\ pc = "emit"
    /\ payload.t = "string"
    /\ encoded' = Return(emitStringBytes(payload.s))
    /\ pc' = "emitted"
    /\ UNCHANGED <<payload, data, stack, decoded, reencoded, dispatches, returns,
                   keyChecks, pastEnd>>

Idle ==
    /\ stack = <<>> /\ decoded = NotCalled /\ reencoded = NotCalled
    /\ encoded = NotCalled
    /\ dispatches = <<>> /\ returns = <<>> /\ keyChecks = <<>> /\ pastEnd = FALSE

---------------------------------------------------------------------------
(* Inputs *)

\* the largest count or value the prefix byte holds inline
MaxInline == 23

\* sequences over S of length 0..n
SeqsUpTo(S, n) == UNION {[1..m -> S] : m \in 0..n}

\* a text of length L whose characters cycle from char code c
text(L, c) == [i \in 1..L |-> c + (i % 3)]

\* "a", e-acute, and a character outside Latin-1
TextSeeds == {\H61, \HE9, \H263A}

TextLens == 0..MaxTextLen

\* the longest text with a length prefix, and the shortest without one
LongTexts == {String(text(L, \H61)) : L \in {65535, 65536}}

IntegerInputs == {Integer(n) : n \in (0 - IntMargin)..(65535 + IntMargin)}

StringInputs == {String(text(L, c)) : L \in TextLens, c \in TextSeeds} \cup LongTexts

\* values of the supported grammar
LeafIntegers == {Integer(n) : n \in {0, 23, 24, 255, 256, 65535}}
LeafStrings  == {String(<<>>), String(<<\H61>>), String(<<\H61, \H62>>),
                 String(text(MaxInline + 1, \H61))}
\* values outside it
BadLeaves == {Integer(-1), Integer(65536), Float("1.5"), Boolean(TRUE)}

Leaves == LeafIntegers \cup LeafStrings \cup BadLeaves

SmallLeaves == {Integer(1), Integer(24), String(<<\H61>>), Integer(-1),
                Boolean(TRUE)}

Keys == {<<\H61>>, <<\H62>>}

\* Maps of at most n pairs with distinct keys, values from V
MapsOf(V, n) ==
    {Map(p) : p \in {q \in SeqsUpTo([k : Keys, v : V], n) :
                        \A i, j \in DOMAIN q : q[i].k = q[j].k => i = j}}

ArraysOf(V, n) == {Array(e) : e \in SeqsUpTo(V, n)}

\* a sequence and a mapping of MaxInline + 1 elements
BigArray == Array([i \in 1..(MaxInline + 1) |-> Integer(0)])
BigMap   == Map([i \in 1..(MaxInline + 1) |-> [k |-> <<\H60 + i>>, v |-> Integer(0)]])

Inner == SmallLeaves \cup ArraysOf(SmallLeaves, 1) \cup MapsOf(SmallLeaves, 1)

Values ==
    Leaves \cup ArraysOf(Leaves, MaxArrLen) \cup ArraysOf(Inner, MaxArrLen)
           \cup MapsOf(Leaves, 1) \cup MapsOf(Inner, 1) \cup {BigArray, BigMap}

Payloads == MapsOf(Values, 1) \cup MapsOf(Inner, 2) \cup {BigMap}

\* bytes of every kind the decoder tells apart: tiny integers, the one-byte
\* integer escape, texts of length 1 and 2, sequences and mappings of 0, 1
\* and 2 elements, and a byte of no major type
Bytes == {\H01, \H18, \H61, \H62, \H80, \H81, \H82, \HA0, \HA1, \HA2, \HFF}

Buffers == SeqsUpTo(Bytes, MaxBufLen)

---------------------------------------------------------------------------
(* Specifications *)

\* encode, decode of the bytes, encode again
Init ==
    /\ payload \in Payloads
    /\ data = <<>>
    /\ pc = "encode"
    /\ Idle

Next ==
    \/ Encode
    \/ Decode
    \/ ArrayIter
    \/ ArrayReturn
    \/ MapIter
    \/ MapReturn
    \/ Reencode

Spec == Init /\ [][Next]_vars

\* decode of an arbitrary buffer; a call in progress runs on
DecodeInit ==
    /\ payload = NoPayload
    /\ data \in Buffers
    /\ pc = "decode"
    /\ Idle

DecodeNext ==
    \/ Decode
    \/ ArrayIter
    \/ ArrayReturn
    \/ MapIter
    \/ MapReturn

DecodeSpec == DecodeInit /\ [][DecodeNext]_vars /\ WF_vars(DecodeNext)

\* the scalar emitters, each on its own
EmitInit ==
    /\ payload \in IntegerInputs \cup StringInputs
    /\ data = <<>>
    /\ pc = "emit"
    /\ Idle

EmitNext ==
    \/ EmitInteger
    \/ EmitString

EmitSpec == EmitInit /\ [][EmitNext]_vars

---------------------------------------------------------------------------
(* The supported grammar and the wire format, as the specification states  *)
(* them; the properties below are stated with these.                       *)

Latin1(s) == \A i \in DOMAIN s : s[i] \in 0..255

\* unsigned integers 0..65535, Latin-1 text, sequences and string-keyed
\* mappings of at most MaxInline elements, nested
RECURSIVE Supported(_)
Supported(v) ==
    IF v.t = "integer" THEN v.v \in 0..65535
    ELSE IF v.t = "string" THEN Len(v.s) <= 65535 /\ Latin1(v.s)
    ELSE IF v.t = "Array"
         THEN Len(v.e) <= MaxInline /\ \A i \in DOMAIN v.e : Supported(v.e[i])
    ELSE IF v.t = "Map"
         THEN /\ Len(v.p) <= MaxInline
              /\ \A i \in DOMAIN v.p : Latin1(v.p[i].k) /\ Supported(v.p[i].v)
    ELSE FALSE

\* the concatenation of a sequence of byte sequences
RECURSIVE Flatten(_)
Flatten(ss) == IF ss = <<>> THEN <<>> ELSE Head(ss) \o Flatten(Tail(ss))

\* the item of a supported value: a scalar's is its emitter's, a composite's
\* is its prefix byte and then its children's items in order
RECURSIVE ItemOf(_)
ItemOf(v) ==
    IF v.t = "integer" THEN emitIntegerBytes(v.v)
    ELSE IF v.t = "string" THEN emitStringBytes(v.s)
    ELSE IF v.t = "Array"
         THEN <<\H80 + Len(v.e)>> \o Flatten([i \in DOMAIN v.e |-> ItemOf(v.e[i])])
    ELSE <<\HA0 + Len(v.p)>>
             \o Flatten([i \in DOMAIN v.p |->
                             emitStringBytes(v.p[i].k) \o ItemOf(v.p[i].v)])

InRange(byte, lo, hi) == byte >= lo /\ byte <= hi

\* a byte of the buffer in none of the major-type ranges of the wire format
\* (inline forms and escapes)
UnknownTag(byte) ==
    /\ byte \in 0..255
    /\ ~InRange(byte, \H00, \H19)
    /\ ~InRange(byte, \H60, \H79)
    /\ ~InRange(byte, \H80, \H99)
    /\ ~InRange(byte, \HA0, \HB9)

\* the number of bytes of the well-formed item of the decoder's grammar that
\* starts at index i of bytes, 0 when none does
RECURSIVE SizeAt(_, _)
\* the bytes of n items (n pairs when pairs) in a row from index i, 0 when
\* one of them is not well-formed; an empty row is 0 bytes as well
RECURSIVE SizeOfRow(_, _, _, _)
SizeOfRow(bytes, i, n, pairs) ==
    IF n = 0 THEN 0
    ELSE LET key   == IF pairs /\ isTinyUtf8Type(byteAt(bytes, i))
                      THEN SizeAt(bytes, i) ELSE 0
             first == IF pairs /\ key = 0 THEN 0
                      ELSE IF SizeAt(bytes, i + key) = 0 THEN 0
                      ELSE key + SizeAt(bytes, i + key)
             rest  == IF first = 0 \/ n = 1 THEN 0
                      ELSE SizeOfRow(bytes, i + first, n - 1, pairs)
         IN  IF first = 0 \/ (n > 1 /\ rest = 0) THEN 0 ELSE first + rest

SizeAt(bytes, i) ==
    LET byte == byteAt(bytes, i)
    IN  IF InRange(byte, \H00, \H17) THEN 1
        ELSE IF InRange(byte, \H60, \H77)
             THEN IF i + 1 + (byte - \H60) <= Len(bytes) THEN 1 + (byte - \H60) ELSE 0
        ELSE IF InRange(byte, \H80, \H97) \/ InRange(byte, \HA0, \HB7)
             THEN LET pairs == InRange(byte, \HA0, \HB7)
                      n     == byte - (IF pairs THEN \HA0 ELSE \H80)
                      row   == SizeOfRow(bytes, i + 1, n, pairs)
                  IN  IF n = 0 THEN 1 ELSE IF row = 0 THEN 0 ELSE 1 + row
        ELSE 0

---------------------------------------------------------------------------
(* Properties *)

\* C1: round trip.  For every payload of the supported grammar, decode of
\* the bytes encode returned returns a value structurally equal to the
\* payload (pairs in the same order).
C1_RoundTrip ==
    (pc \in {"done", "reencoded"} /\ Supported(payload))
        => decoded = Return(payload)

\* C2: length classes of the scalar emitters.  An integer v of 0..65535 is
\* emitted as <<v>> up to 23, <<0x18, v>> up to 255 and
\* <<0x19, v div 256, v mod 256>> beyond; a text of length L of 0..65535 is
\* emitted as the prefix <<0x60 + L>>, <<0x78, L>> or
\* <<0x79, L div 256, L mod 256>> of the same three classes and then exactly
\* L bytes.
LengthPrefix(inline, n) ==
    IF n <= 23 THEN <<inline + n>>
    ELSE IF n <= 255 THEN <<inline + 24, n>>
    ELSE <<inline + 25, n \div 256, n % 256>>

C2_LengthClasses ==
    pc = "emitted" =>
        /\ (payload.t = "integer" /\ payload.v \in 0..65535)
               => encoded = Return(LengthPrefix(\H00, payload.v))
        /\ (payload.t = "string" /\ Len(payload.s) \in 0..65535)
               => LET L      == Len(payload.s)
                      prefix == LengthPrefix(\H60, L)
                      bytes  == encoded.value
                  IN  /\ encoded.kind = "return"
                      /\ Len(bytes) = Len(prefix) + L
                      /\ SubSeq(bytes, 1, Len(prefix)) = prefix
                      /\ \A i \in 1..Len(bytes) : bytes[i] \in 0..255

\* a text of 256 characters was emitted with the two-byte length 0x0100
C2_Witness ==
    /\ pc = "emitted"
    /\ payload.t = "string"
    /\ Len(payload.s) = 256
    /\ SubSeq(encoded.value, 1, 3) = <<\H79, 1, 0>>
    /\ Len(encoded.value) = 259

\* C3: a payload outside the supported grammar, at any depth, makes encode
\* signal an error; no bytes are returned.
C3_UnsupportedSignalled ==
    (pc # "encode" /\ ~Supported(payload)) => encoded.kind = "throw"

\* C4: composite emission.  The bytes of a supported payload are the prefix
\* byte of each composite followed by the full items of its children in
\* order (key item, then value item, for each pair of a mapping).
C4_CompositeEmission ==
    (pc # "encode" /\ Supported(payload)) => encoded = Return(ItemOf(payload))

\* C5: unknown tag.  Once matchNextItemType is given a byte of the buffer
\* that is of no major type, that was the last dispatch: decode has failed
\* with the exception, nothing is being consumed and no value is returned.
C5_UnknownTagFails ==
    \A n \in DOMAIN dispatches :
        UnknownTag(dispatches[n].byte)
            => /\ n = Len(dispatches)
               /\ pc = "done"
               /\ stack = <<>>
               /\ decoded.kind = "throw"

\* the value of a pair of a mapping was a byte of no major type
C5_Witness ==
    /\ pc = "done"
    /\ keyChecks # <<>>
    /\ Len(dispatches) >= 2
    /\ UnknownTag(dispatches[Len(dispatches)].byte)
    /\ decoded.kind = "throw"

\* C6: truncated buffer.  When decoding read at or past the end of the
\* buffer, decode fails, with an error other than the one an unknown tag
\* gives, and returns no value.
UnknownTagError == "TypeError"

C6_TruncatedFails ==
    (pc = "done" /\ pastEnd)
        => decoded.kind = "throw" /\ decoded.error # UnknownTagError

\* C7: malformed key.  When a byte of the buffer that is no text prefix
\* stood where consumeMapObject expected a key, decode fails; no mapping of
\* the pairs decoded so far comes back.
C7_MalformedKeyFails ==
    (/\ pc = "done"
     /\ \E n \in DOMAIN keyChecks :
            keyChecks[n].byte \in 0..255 /\ ~InRange(keyChecks[n].byte, \H60, \H77))
        => decoded.kind = "throw"

\* C8: encode(decode(b)) = b for the bytes b that encode returned for a
\* payload of the supported grammar.
C8_ReencodeIdentity ==
    (pc = "reencoded" /\ Supported(payload)) => reencoded = Return(data)

\* C9: termination.  Every completed consume call returned a nextIndex
\* beyond its idx, every consume call was made at an idx beyond its
\* caller's, and decode ends for every buffer.
StrictAdvance ==
    /\ \A n \in DOMAIN returns :
           /\ returns[n].nextIndex > returns[n].idx
           /\ returns[n].idx > returns[n].caller
    /\ \A n \in 2..Len(stack) : stack[n].idx > stack[n - 1].idx

C9_Termination == []StrictAdvance /\ <>(pc = "done")

\* decode ended after a mapping inside a sequence or mapping had returned
C9_Witness ==
    /\ pc = "done"
    /\ \E n \in DOMAIN returns :
           returns[n].fn = "consumeMapObject" /\ returns[n].caller >= 0

\* C10: cursor threading.  A consume call on a well-formed item of k bytes
\* at index i returns nextIndex = i + k.
C10_CursorThreading ==
    \A n \in DOMAIN returns :
        SizeAt(data, returns[n].idx) > 0
            => returns[n].nextIndex = returns[n].idx + SizeAt(data, returns[n].idx)

=============================================================================
